---- MODULE Spec2Model ----
(***************************************************************************)
(* Model of the mock-interviewer's completion client                       *)
(* (src/lib/openrouter.ts, generateResponse): one call of the retry loop   *)
(* around groq.chat.completions.create, with the transport's outcomes and  *)
(* the backoff timer as the environment.                                   *)
(*                                                                         *)
(* JavaScript values are modelled as follows.  An optional value           *)
(* (undefined/null or a value) is a sequence of length 0 or 1.  The        *)
(* fields `status` and `code` of a caught error are strings, "undefined"   *)
(* standing for an absent field; an error message is a number, 0 being     *)
(* the message of the client's own 'No content in Groq response' error.    *)
(***************************************************************************)
EXTENDS Integers, Sequences, FiniteSets, TLC

\* ------------------------------------------------------------------ bounds
\* number of distinct messages a transport error can carry
NumMessages == 2

\* --------------------------------------------------------------- constants
maxRetries_6 == 5 + 1

maxRetries_7 == 5 + 2

\* openrouter.ts:37  const maxRetries = 5
maxRetries == 5

\* ------------------------------------------------------- environment values
\* message of new Error('No content in Groq response'), openrouter.ts:66
NoContentMessage == 0

TransportMessages == 1..NumMessages

\* the generated texts the model can answer with (non-empty strings)
Texts == {"t1", "t2"}

\* response.choices?.[0]?.message?.content : undefined, or a string
Contents == {<<>>} \cup {<<s>> : s \in Texts \cup {""}}

\* Errors the SDK call can reject with: an API error carries the numeric
\* HTTP status in `status` (429 rate limit, 500 server error); a connection
\* error carries no status and possibly a Node error code in `code`.
TransportErrors ==
    [status : {"429", "500"}, code : {"undefined"}, message : TransportMessages]
    \cup
    [status : {"undefined"}, code : {"undefined", "ECONNRESET"},
     message : TransportMessages]

\* new Error('No content in Groq response'): a plain Error, no status, no code
NoContentError ==
    [status |-> "undefined", code |-> "undefined", message |-> NoContentMessage]

\* the outcome of one outbound request, as recorded in reqLog
Fulfilled(c) == [ok |-> TRUE, content |-> c, err |-> NoContentError]
Rejected(e) == [ok |-> FALSE, content |-> <<>>, err |-> e]

\* the outcome of the call
NoResult == [kind |-> "none", text |-> "", cause |-> NoContentMessage]
Returned(t) == [kind |-> "text", text |-> t, cause |-> NoContentMessage]
\* new Error('GROQ_API_KEY is not configured. ...'), openrouter.ts:34
ConfigurationError == [kind |-> "config", text |-> "", cause |-> NoContentMessage]
\* new Error(`Failed to generate response after 5 attempts: ${lastError?.message}`)
ExhaustedRetriesError(m) == [kind |-> "exhausted", text |-> "", cause |-> m]

VARIABLES
    apiKey,      \* process.env.GROQ_API_KEY is set
    pc,          \* position of the call: idle, attempting, delay, returned, thrown
    attempt,     \* the loop variable `attempt`
    lastError,   \* the local `lastError` (optional error)
    requests,    \* number of groq.chat.completions.create calls issued
    inFlight,    \* number of those not yet settled
    reqLog,      \* outcome of every settled request, in order
    delays,      \* the delayMs passed to setTimeout, in order
    timerFired,  \* the pending setTimeout has called resolve
    keyChecks,   \* number of evaluations of the credential check
    result,      \* what the call returned or threw
    \* -- concurrent invocations of generateResponse
    calls,       \* the locals of every invocation, by invocation
    actor,       \* the invocation that took the last step (0: none yet)
    \* -- detectPersona as a function
    personaIn,   \* the argument `answers`
    personaOut,  \* the value returned for it (optional)
    \* -- renderTemplate as a function
    tplIn,       \* the arguments `template` and `variables`
    tplOut,      \* the value returned for them (optional)
    \* -- interview sessions
    sessions,    \* the module-level Map `sessions`: id -> optional session
    startCall,   \* the start-interview request being served (optional)
    startResp,   \* the last response of POST /api/start-interview, with
                 \* the request body it answers (optional)
    subs,        \* the submitAnswer calls in progress, by slot
    lastReturn,  \* the outcome of the last finished POST /api/submit-answer:
                 \* what submitAnswer returned or threw, or the route's 400
    begun,       \* number of submitAnswer calls started
    threw,       \* number of requests that ended in an error
    fbCall,      \* the generateFeedback call in progress (optional)
    fbReturn,    \* what the last finished generateFeedback returned or threw,
                 \* with the text it had received from the model (optional)
    \* -- the chat page
    chat         \* the mounted ChatInterface: its React state, the state of
                 \* its last render, and counts of what it has done

\* the state of the single call
clientVars == <<apiKey, pc, attempt, lastError, requests, inFlight, reqLog,
                delays, timerFired, keyChecks, result>>

\* the state of the concurrent invocations
callVars == <<calls, actor>>

\* an application of detectPersona or of renderTemplate
personaVars == <<personaIn, personaOut, tplIn, tplOut>>

\* the interview sessions and the calls that work on them
sessVars == <<sessions, startCall, startResp, subs, lastReturn, begun, threw,
              fbCall, fbReturn>>

vars == <<clientVars, callVars, personaVars, sessVars, chat>>

\* what the steps of the single call leave alone
notClient == <<callVars, personaVars, sessVars, chat>>

\* what the steps of the concurrent invocations leave alone (they read
\* process.env through apiKey)
notCalls == <<pc, attempt, lastError, requests, inFlight, reqLog, delays,
              timerFired, keyChecks, result, personaVars, sessVars, chat>>

\* what an application of detectPersona leaves alone
notPersona == <<clientVars, callVars, sessVars, chat>>

\* what the steps on sessions leave alone
notSessions == <<clientVars, callVars, personaVars, chat>>

\* what the steps of the ChatInterface leave alone
notChat == <<clientVars, callVars, personaVars, sessVars>>

\* the ids generateId() produces, and an id it never produced
SessionIds == {"s1"}

UnknownId == "none"

\* the slots of submitAnswer calls in progress
SubmitSlots == {1, 2}

\* `before` is the session as it was when the call started (optional)
IdleSlot ==
    [stage |-> "idle", call |-> 0, sid |-> UnknownId, answer |-> <<>>,
     turnAtCall |-> 0, action |-> "", messages |-> <<>>, before |-> <<>>]

NoReturn ==
    [kind |-> "none", call |-> 0, sid |-> UnknownId, answer |-> <<>>,
     turnAtCall |-> 0, action |-> "", assistantResponse |-> <<>>,
     turnCount |-> 0, maxTurns |-> 0, detectedPersona |-> <<>>,
     before |-> <<>>]

\* a FeedbackReport by where each field comes from: "given" (the model's
\* value, possibly sliced), "weaknesses" (the deprecated field) or "default"
NoReport ==
    [overallScore |-> 0, strengths |-> "", areasForImprovement |-> "",
     actionableTips |-> "", roleEvaluation |-> ""]

NoFeedback ==
    [kind |-> "none", sid |-> UnknownId, text |-> <<>>, path |-> "",
     report |-> NoReport]

\* the invocations running concurrently
CallIds == {1, 2}

\* let lastError, let attempt, const response ... are bindings of one
\* invocation (openrouter.ts:37-41, 47, 61, 73, 83)
InitLocals ==
    [pc |-> "idle", attempt |-> 0, lastError |-> <<>>, requests |-> 0,
     delays |-> <<>>, timerFired |-> FALSE, result |-> NoResult]

\* ------------------------------------------------------------ pure helpers
Pow2(n) == 2 ^ n

\* JavaScript truthiness of a status/code field
Truthy(v) == v # "undefined"

\* openrouter.ts:33  if (!process.env.GROQ_API_KEY)
CredentialMissing_never(key) == FALSE

CredentialMissing(key) == ~key

\* openrouter.ts:64  if (!content)  -- undefined, null and "" are falsy
NoContent_onlyUndefined(c) == c = <<>>

NoContent_always(c) == TRUE

NoContent(c) == c = <<>> \/ c[1] = ""

\* openrouter.ts:73  const status = error?.status || error?.code
StatusOf_sticky(e) ==
    IF lastError # <<>> /\ lastError[1].status = "429" THEN "429"
    ELSE IF Truthy(e.status) THEN e.status ELSE e.code

StatusOf(e) == IF Truthy(e.status) THEN e.status ELSE e.code

\* openrouter.ts:85-91  the two backoff schedules
DelayMs_doc(n, status) ==
    IF status = "429" THEN Pow2(n - 1) * 3000 ELSE Pow2(n - 1) * 1000

DelayMs_from2s(n, status) ==
    IF status = "429" THEN Pow2(n) * 3000 ELSE Pow2(n) * 1000

DelayMs(n, status) ==
    IF status = "429" THEN Pow2(n) * 3000 ELSE Pow2(n - 1) * 1000

\* openrouter.ts:84  if (attempt < maxRetries)
DelaysAfter_always(n) == TRUE

DelaysAfter(n) == n < maxRetries

\* openrouter.ts:72  lastError = error as Error
Remember_first(e) == IF lastError = <<>> THEN <<e>> ELSE lastError

Remember(e) == <<e>>

\* no call of generateResponse has started
InitClient ==
    /\ pc = "idle"
    /\ attempt = 0
    /\ lastError = <<>>
    /\ requests = 0
    /\ inFlight = 0
    /\ reqLog = <<>>
    /\ delays = <<>>
    /\ timerFired = FALSE
    /\ keyChecks = 0
    /\ result = NoResult
    /\ calls = [c \in CallIds |-> InitLocals]
    /\ actor = 0

\* renderTemplate is not being applied
InitNoTemplate ==
    /\ tplIn = [template |-> <<>>, variables |-> <<>>]
    /\ tplOut = <<>>

\* detectPersona and renderTemplate are not being applied
InitNoPersona ==
    /\ personaIn = <<>>
    /\ personaOut = <<>>
    /\ InitNoTemplate

\* interviewEngine.ts:15  const sessions = new Map(); no request is served
InitSessions ==
    /\ sessions = [id \in SessionIds |-> <<>>]
    /\ startCall = <<>>
    /\ startResp = <<>>
    /\ subs = [i \in SubmitSlots |-> IdleSlot]
    /\ lastReturn = NoReturn
    /\ begun = 0
    /\ threw = 0
    /\ fbCall = <<>>
    /\ fbReturn = NoFeedback

\* ChatInterface.tsx:17-39  the component is mounted: the useState initial
\* values, the placeholder message of the effect, nothing sent
InitChat ==
    chat = [userInput |-> "", isLoading |-> FALSE, interviewComplete |-> FALSE,
            error |-> FALSE, messages |-> 1,
            shown |-> [userInput |-> "", isLoading |-> FALSE,
                       interviewComplete |-> FALSE],
            posted |-> "", pending |-> 0, sent |-> 0, ended |-> 0,
            scheduled |-> 0, completions |-> 0]

Init ==
    /\ apiKey \in BOOLEAN
    /\ InitClient
    /\ InitNoPersona
    /\ InitSessions
    /\ InitChat

\* openrouter.ts:47  groq.chat.completions.create(...) is called for `attempt`
IssueRequest ==
    /\ requests' = requests + 1
    /\ inFlight' = inFlight + 1
    /\ pc' = "attempting"

\* openrouter.ts:98  the loop is left without a return
ThrowExhausted(err) ==
    /\ pc' = "thrown"
    /\ result' = ExhaustedRetriesError(IF err = <<>> THEN NoContentMessage
                                       ELSE err[1].message)

\* openrouter.ts:29-47  the call runs synchronously up to the first await:
\* the credential check, then the first iteration's request
Call ==
    /\ pc = "idle"
    /\ keyChecks' = keyChecks + 1
    /\ IF CredentialMissing(apiKey)
       THEN /\ pc' = "thrown"
            /\ result' = ConfigurationError
            /\ UNCHANGED <<attempt, requests, inFlight>>
       ELSE /\ attempt' = 1
            /\ IssueRequest
            /\ UNCHANGED result
    /\ UNCHANGED <<apiKey, lastError, reqLog, delays, timerFired>>
    /\ UNCHANGED notClient

\* openrouter.ts:71-95  the catch block for error e of the current attempt;
\* after the last attempt the loop ends and line 98 throws
Catch(e) ==
    /\ lastError' = Remember(e)
    /\ IF DelaysAfter(attempt)
       THEN /\ delays' = Append(delays, DelayMs(attempt, StatusOf(e)))
            /\ pc' = "delay"
            /\ timerFired' = FALSE
            /\ UNCHANGED result
       ELSE /\ ThrowExhausted(lastError')
            /\ UNCHANGED <<delays, timerFired>>

\* openrouter.ts:61-70  the request of the current attempt is fulfilled with
\* a response whose first choice has content c
Resolve ==
    /\ pc = "attempting"
    /\ \E c \in Contents :
        /\ reqLog' = Append(reqLog, Fulfilled(c))
        /\ inFlight' = inFlight - 1
        /\ IF NoContent(c)
           THEN Catch(NoContentError)
           ELSE /\ pc' = "returned"
                /\ result' = Returned(c[1])
                /\ UNCHANGED <<lastError, delays, timerFired>>
    /\ UNCHANGED <<apiKey, attempt, requests, keyChecks>>
    /\ UNCHANGED notClient

\* openrouter.ts:47,71  the request of the current attempt is rejected with e
Reject ==
    /\ pc = "attempting"
    /\ \E e \in TransportErrors :
        /\ reqLog' = Append(reqLog, Rejected(e))
        /\ inFlight' = inFlight - 1
        /\ Catch(e)
    /\ UNCHANGED <<apiKey, attempt, requests, keyChecks>>
    /\ UNCHANGED notClient

\* openrouter.ts:93  the timer set by setTimeout(resolve, delayMs) expires
TimerFire ==
    /\ pc = "delay"
    /\ ~timerFired
    /\ timerFired' = TRUE
    /\ UNCHANGED <<apiKey, pc, attempt, lastError, requests, inFlight, reqLog,
                   delays, keyChecks, result>>
    /\ UNCHANGED notClient

Resume_rearm ==
    /\ pc = "delay"
    /\ timerFired
    /\ timerFired' = FALSE
    /\ UNCHANGED <<apiKey, pc, attempt, lastError, requests, inFlight, reqLog,
                   delays, keyChecks, result>>
    /\ UNCHANGED notClient

Resume_noAwait ==
    /\ pc = "delay"
    /\ attempt' = attempt + 1
    /\ timerFired' = FALSE
    /\ IssueRequest
    /\ UNCHANGED <<apiKey, lastError, reqLog, delays, keyChecks, result>>
    /\ UNCHANGED notClient

\* openrouter.ts:93,41,47  the awaited delay promise is resolved: attempt++,
\* the loop condition, and the next iteration's request
Resume ==
    /\ pc = "delay"
    /\ timerFired
    /\ attempt' = attempt + 1
    /\ timerFired' = FALSE
    /\ IF attempt' <= maxRetries
       THEN IssueRequest /\ UNCHANGED result
       ELSE ThrowExhausted(lastError) /\ UNCHANGED <<requests, inFlight>>
    /\ UNCHANGED <<apiKey, lastError, reqLog, delays, keyChecks>>
    /\ UNCHANGED notClient

Next ==
    \/ Call
    \/ Resolve
    \/ Reject
    \/ TimerFire
    \/ Resume

Spec == Init /\ [][Next]_vars

\* The scheduling of one call: the SDK settles every request it was given,
\* the timer of setTimeout expires, and the event loop runs the continuation
\* of a resolved await.
SpecLive ==
    /\ Spec
    /\ WF_vars(Resolve \/ Reject)
    /\ WF_vars(TimerFire)
    /\ WF_vars(Resume)

TypeOK ==
    /\ apiKey \in BOOLEAN
    /\ pc \in {"idle", "attempting", "delay", "returned", "thrown"}
    /\ attempt \in 0..maxRetries
    /\ requests \in 0..maxRetries
    /\ inFlight \in 0..1
    /\ Len(reqLog) <= maxRetries
    /\ Len(delays) < maxRetries
    /\ timerFired \in BOOLEAN
    /\ keyChecks \in 0..1

\* ------------------------------------------------- vocabulary of the claims
\* request n was fulfilled with non-empty generated text
Succeeded(n) == reqLog[n].ok /\ reqLog[n].content # <<>> /\ reqLog[n].content[1] # ""

\* request n was fulfilled, but the response carries no generated text
EmptyResponse(n) == reqLog[n].ok /\ ~Succeeded(n)

\* request n was rejected by the transport with HTTP status 429
Failed429(n) == ~reqLog[n].ok /\ reqLog[n].err.status = "429"

\* request n failed in any other way (other rejection, or empty response)
FailedOther(n) == ~Succeeded(n) /\ ~Failed429(n)

\* the message of the error attempt n failed with
FailureMessage(n) ==
    IF reqLog[n].ok THEN NoContentMessage ELSE reqLog[n].err.message

Settled == 1..Len(reqLog)

\* C1: one call issues at most 5 completion requests, whatever the outcomes.
C1_AtMostFiveRequests == requests <= 5 /\ Len(reqLog) <= 5

C1_Witness == requests = 5 /\ pc = "thrown" /\ result.kind = "exhausted"

\* C2: as soon as attempt n yields non-empty text the call returns exactly
\* that text; request n is the last request and no delay follows it (only
\* the n-1 delays between the failed attempts precede it); when attempt 1
\* succeeds there is exactly one request and no delay.
C2_SuccessShortCircuits ==
    \A n \in Settled :
        Succeeded(n) =>
            /\ pc = "returned"
            /\ result = Returned(reqLog[n].content[1])
            /\ Len(reqLog) = n
            /\ requests = n
            /\ inFlight = 0
            /\ Len(delays) = n - 1
            /\ (n = 1 => requests = 1 /\ delays = <<>>)

C2_Witness ==
    /\ Len(reqLog) = 3
    /\ Succeeded(3)
    /\ pc = "returned"
    /\ result.text = "t2"

\* C3: when all 5 attempts have failed the call throws the exhausted-retries
\* error carrying the message of attempt 5's error, after exactly 5 requests.
C3_ExhaustedCarriesLastError ==
    (Len(reqLog) = 5 /\ ~Succeeded(5)) =>
        /\ pc = "thrown"
        /\ result = ExhaustedRetriesError(FailureMessage(5))
        /\ requests = 5
        /\ inFlight = 0

C3_Witness ==
    /\ Len(reqLog) = 5
    /\ pc = "thrown"
    /\ result.kind = "exhausted"
    /\ \A n \in 1..4 : FailureMessage(n) # FailureMessage(5)

\* C4: without a credential the call throws the configuration error with
\* zero requests, zero attempts and zero delays; the credential check is
\* evaluated exactly once per call, and with a credential the first attempt
\* is attempt 1, so the check uses none of the budget.
C4_CredentialCheckedOnce ==
    /\ keyChecks <= 1
    /\ (pc # "idle" => keyChecks = 1)
    /\ ((~apiKey /\ pc # "idle") =>
            /\ pc = "thrown"
            /\ result = ConfigurationError
            /\ requests = 0
            /\ attempt = 0
            /\ reqLog = <<>>
            /\ delays = <<>>)
    /\ ((apiKey /\ requests = 1 /\ inFlight = 1) => attempt = 1)

C4_Witness == ~apiKey /\ pc = "thrown" /\ keyChecks = 1

C6_OtherFailureDelays ==
    /\ \A n \in 1..Len(delays) :
           FailedOther(n) =>
               (n <= 4 /\ delays[n] = Pow2(n - 1) * 1000
                       /\ delays[n] = <<1000, 2000, 4000, 8000>>[n])
    /\ \A n \in Settled :
           (FailedOther(n) /\ n <= 4) => Len(delays) >= n

C6_Witness ==
    /\ Len(delays) = 4
    /\ \A n \in 1..4 : FailedOther(n)
    /\ ~reqLog[1].ok
    /\ reqLog[2].ok

\* C7: the call is in a delay only after a failed attempt n < 5; a failed
\* attempt 5 ends the call with the exhausted-retries error and neither
\* computes nor waits for a delay.
C7_DelayOnlyBeforeARetry ==
    /\ (pc = "delay" =>
            /\ attempt < 5
            /\ Len(delays) = attempt
            /\ Len(reqLog) = attempt
            /\ ~Succeeded(attempt))
    /\ Len(delays) <= 4
    /\ ((Len(reqLog) = 5 /\ ~Succeeded(5)) => pc = "thrown" /\ Len(delays) = 4)

C7_NoDelayAfterFifth ==
    /\ [](C7_DelayOnlyBeforeARetry)
    /\ [][(attempt = 5 /\ pc = "attempting") =>
             (pc' \in {"returned", "thrown"} /\ delays' = delays
              /\ timerFired' = timerFired /\ requests' = requests)]_vars

C7_Witness ==
    /\ Len(reqLog) = 5
    /\ ~Succeeded(5)
    /\ pc = "thrown"
    /\ Len(delays) = 4

\* C8: a response without generated text (missing or empty content) is
\* never returned: it is a failed attempt of the budget, attempt n < 5 is
\* followed by the delay 2^(n-1) * 1000 ms and attempt 5 by the
\* exhausted-retries error; every returned value is a non-empty string.
C8_EmptyResponseIsAFailure ==
    /\ (pc = "returned" =>
            result.kind = "text" /\ result.text # "" /\ result.text \in Texts)
    /\ (result.kind = "text" => pc = "returned")
    /\ \A n \in Settled :
           EmptyResponse(n) =>
               /\ ~(pc = "returned" /\ Len(reqLog) = n)
               /\ lastError # <<>>
               /\ (n < 5 => Len(delays) >= n /\ delays[n] = Pow2(n - 1) * 1000)
               /\ (n = 5 => pc = "thrown" /\ result.kind = "exhausted"
                            /\ requests = 5)

C8_Witness ==
    /\ Len(reqLog) = 3
    /\ reqLog[1] = Fulfilled(<<>>)
    /\ reqLog[2] = Fulfilled(<<"">>)
    /\ Succeeded(3)
    /\ pc = "returned"

C10_IssuedInOrder ==
    requests' # requests =>
        /\ requests' = requests + 1
        /\ inFlight = 0
        /\ attempt' = requests + 1
        /\ \/ pc = "idle" /\ requests = 0
           \/ /\ pc = "delay"
              /\ timerFired
              /\ Len(reqLog) = requests
              /\ ~Succeeded(requests)
              /\ Len(delays) = requests

C10_StrictlySequential ==
    /\ [](inFlight <= 1 /\ (inFlight = 1 <=> pc = "attempting")
          /\ requests = Len(reqLog) + inFlight)
    /\ [][C10_IssuedInOrder]_vars

C10_Witness == requests = 3 /\ inFlight = 1 /\ Len(delays) = 2

\* C12: when every request settles and every delay elapses, a started call
\* ends: it either returns a non-empty generated text or throws an error,
\* never both and never an empty or partial result, and the outcome stays.
C12_Outcome ==
    /\ (pc = "returned" => result.kind = "text" /\ result.text \in Texts)
    /\ (pc = "thrown" => result.kind \in {"config", "exhausted"})
    /\ (pc \notin {"returned", "thrown"} => result = NoResult)

C12_EventuallyTerminates ==
    /\ [](C12_Outcome)
    /\ [][(pc \in {"returned", "thrown"}) => (pc' = pc /\ result' = result)]_vars
    /\ ((pc \in {"attempting", "delay"}) ~> (pc \in {"returned", "thrown"}))

C12_Witness ==
    /\ pc = "thrown"
    /\ result.kind = "exhausted"
    /\ Len(delays) = 4
    /\ Len(reqLog) = 5
    /\ reqLog[5].ok

\* C14: after a 429 failure the call waits 3s, 6s, 12s, 24s before the
\* retries, the first retry after a 429 waiting 3000 ms, within 5 attempts.
C14_DocumentedRateLimitSchedule ==
    /\ requests <= 5
    /\ \A n \in 1..Len(delays) :
           Failed429(n) => delays[n] = <<3000, 6000, 12000, 24000, 48000>>[n]

\* ---------------------------------------------------------------------------
\* Concurrent invocations of generateResponse.  Every invocation runs the
\* code of the single call on its own locals; the invocations share
\* process.env (apiKey) and the module-level client `groq`, which
\* generateResponse only reads.  The transport answers with CallContents
\* and CallErrors.
\* ---------------------------------------------------------------------------
CallContents == {<<>>, <<"t1">>}

CallErrors == {e \in TransportErrors : e.message = 1 /\ e.code = "undefined"}

\* the activation record that holds the locals of invocation c
Frame_moduleLevel(c) == 1

Frame(c) == c

\* openrouter.ts:71-98 on the locals l of one invocation
CatchLocals(l, e) ==
    IF DelaysAfter(l.attempt)
    THEN [l EXCEPT !.lastError = Remember(e),
                   !.delays = Append(@, DelayMs(l.attempt, StatusOf(e))),
                   !.pc = "delay",
                   !.timerFired = FALSE]
    ELSE [l EXCEPT !.lastError = Remember(e),
                   !.pc = "thrown",
                   !.result = ExhaustedRetriesError(e.message)]

\* openrouter.ts:41-47 on the locals l: the next iteration issues a request
IssueLocals(l) ==
    [l EXCEPT !.attempt = @ + 1, !.requests = @ + 1, !.pc = "attempting",
              !.timerFired = FALSE]

\* openrouter.ts:29-47  invocation c starts
CCall(c) ==
    /\ calls[Frame(c)].pc = "idle"
    /\ calls' = [calls EXCEPT ![Frame(c)] =
                    IF CredentialMissing(apiKey)
                    THEN [@ EXCEPT !.pc = "thrown", !.result = ConfigurationError]
                    ELSE IssueLocals(@)]
    /\ actor' = c
    /\ UNCHANGED <<apiKey, notCalls>>

\* openrouter.ts:61-70  the request of invocation c is fulfilled
CResolve(c) ==
    /\ calls[Frame(c)].pc = "attempting"
    /\ \E content \in CallContents :
           calls' = [calls EXCEPT ![Frame(c)] =
                        IF NoContent(content)
                        THEN CatchLocals(@, NoContentError)
                        ELSE [@ EXCEPT !.pc = "returned",
                                       !.result = Returned(content[1])]]
    /\ actor' = c
    /\ UNCHANGED <<apiKey, notCalls>>

\* openrouter.ts:47,71  the request of invocation c is rejected
CReject(c) ==
    /\ calls[Frame(c)].pc = "attempting"
    /\ \E e \in CallErrors :
           calls' = [calls EXCEPT ![Frame(c)] = CatchLocals(@, e)]
    /\ actor' = c
    /\ UNCHANGED <<apiKey, notCalls>>

\* openrouter.ts:93  the timer of invocation c expires
CTimerFire(c) ==
    /\ calls[Frame(c)].pc = "delay"
    /\ ~calls[Frame(c)].timerFired
    /\ calls' = [calls EXCEPT ![Frame(c)].timerFired = TRUE]
    /\ actor' = c
    /\ UNCHANGED <<apiKey, notCalls>>

\* openrouter.ts:93,41,47  invocation c continues after its delay
CResume(c) ==
    /\ calls[Frame(c)].pc = "delay"
    /\ calls[Frame(c)].timerFired
    /\ calls' = [calls EXCEPT ![Frame(c)] =
                    IF @.attempt + 1 <= maxRetries
                    THEN IssueLocals(@)
                    ELSE [@ EXCEPT !.pc = "thrown",
                                   !.result = ExhaustedRetriesError(
                                       IF @.lastError = <<>> THEN NoContentMessage
                                       ELSE @.lastError[1].message)]]
    /\ actor' = c
    /\ UNCHANGED <<apiKey, notCalls>>

CallsStart == \E c \in CallIds : CCall(c)

CallsResolve == \E c \in CallIds : CResolve(c)

CallsReject == \E c \in CallIds : CReject(c)

CallsTimerFire == \E c \in CallIds : CTimerFire(c)

CallsResume == \E c \in CallIds : CResume(c)

NextCalls ==
    \/ CallsStart
    \/ CallsResolve
    \/ CallsReject
    \/ CallsTimerFire
    \/ CallsResume

SpecCalls == Init /\ [][NextCalls]_vars

\* C11: concurrent invocations are independent.  A step of one invocation
\* leaves the attempt counter, last error, delays and every other local of
\* the other invocations as they were, and writes nothing that the
\* invocations share; whatever the other invocations do (also while they
\* wait in a backoff delay) an invocation can start, its request in flight
\* can settle and its expired delay lets it continue; every invocation's
\* delays follow from its own attempts.
C11_OwnLocalsOnly ==
    /\ apiKey' = apiKey
    /\ \A c \in CallIds : (c # actor') => (calls'[c] = calls[c])

C11_NeverBlocked ==
    \A c \in CallIds :
        /\ (calls[c].pc = "idle" => ENABLED CCall(c))
        /\ (calls[c].pc = "attempting" => ENABLED CResolve(c) /\ ENABLED CReject(c))
        /\ ((calls[c].pc = "delay" /\ ~calls[c].timerFired) => ENABLED CTimerFire(c))
        /\ ((calls[c].pc = "delay" /\ calls[c].timerFired) => ENABLED CResume(c))

C11_OwnHistory ==
    \A c \in CallIds :
        /\ calls[c].requests = calls[c].attempt
        /\ calls[c].attempt <= 5
        /\ (calls[c].pc = "attempting" => Len(calls[c].delays) = calls[c].attempt - 1)
        /\ (calls[c].pc = "delay" => Len(calls[c].delays) = calls[c].attempt)
        /\ (calls[c].pc = "delay" => calls[c].lastError # <<>>)
        /\ \A n \in 1..Len(calls[c].delays) :
               calls[c].delays[n] \in {Pow2(n) * 3000, Pow2(n - 1) * 1000}

C11_CallsIndependent ==
    /\ [](C11_NeverBlocked /\ C11_OwnHistory)
    /\ [][C11_OwnLocalsOnly]_vars

C11_Witness ==
    /\ calls[1].pc = "delay"
    /\ ~calls[1].timerFired
    /\ calls[1].attempt = 1
    /\ calls[1].delays = <<6000>>
    /\ calls[2].pc = "returned"
    /\ calls[2].attempt = 3
    /\ calls[2].delays = <<1000, 2000>>
    /\ actor = 2

\* ---------------------------------------------------------------------------
\* Answers and detectPersona (src/lib/interviewEngine.ts).
\*
\* An answer string is modelled by what the code observes of it: `words`
\* maximal runs of non-whitespace characters, separated by whitespace,
\* optionally preceded (lead) and followed (trail) by whitespace; whether it
\* contains a '.'; and the phrase it contains, if any ("" for none).  The
\* words of the phrase are among the `words`.
\* ---------------------------------------------------------------------------
\* bound: the longest list of answers detectPersona is applied to
MaxAnswers == 2

\* interviewEngine.ts:323  if (avgLength < 30) return 'efficient'
EfficientBelow == 30

\* interviewEngine.ts:324  if (avgLength > 150) return 'chatty'
ChattyAbove == 150

Phrases == {"", "not sure", "don't know", "maybe"}

PhraseWords(p) == IF p = "" THEN 0 ELSE IF p = "maybe" THEN 1 ELSE 2

WordCounts == {0, 2, 29, 30, 150, 151}

Answers ==
    {a \in [lead : BOOLEAN, words : WordCounts, trail : BOOLEAN,
            period : BOOLEAN, phrase : Phrases] :
        /\ a.words >= PhraseWords(a.phrase)
        /\ (a.words = 0 => ~a.trail /\ ~a.period)}

\* a.split(/\s+/).length : leading and trailing whitespace each yield an
\* empty first or last element; "" yields [""]
SplitLen(a) ==
    IF a.words = 0
    THEN (IF a.lead THEN 2 ELSE 1)
    ELSE a.words + (IF a.lead THEN 1 ELSE 0) + (IF a.trail THEN 1 ELSE 0)

\* a.includes(p)
Includes(a, p) == a.phrase = p

\* interviewEngine.ts:319  answers.reduce((sum, ans) => sum + ans.split(/\s+/).length, 0)
RECURSIVE TotalWords(_)
TotalWords(answers) ==
    IF answers = <<>> THEN 0
    ELSE SplitLen(Head(answers)) + TotalWords(Tail(answers))

\* interviewEngine.ts:325  answers.some(...)
SomeUncertain(answers) ==
    \E i \in 1..Len(answers) :
        Includes(answers[i], "don't know") \/ Includes(answers[i], "not sure")

\* interviewEngine.ts:316-328.  avgLength = totalWords / answers.length is
\* compared with 30 and 150; for these integers avgLength < 30 is
\* totalWords < 30 * answers.length, and likewise for > 150.
detectPersona(answers) ==
    IF Len(answers) = 0 THEN "edge-case"
    ELSE IF TotalWords(answers) < EfficientBelow * Len(answers) THEN "efficient"
    ELSE IF TotalWords(answers) > ChattyAbove * Len(answers) THEN "chatty"
    ELSE IF SomeUncertain(answers) THEN "confused"
    ELSE "efficient"

\* the answers detectPersona is applied to
PersonaAnswers == {a \in Answers : a.period}

RECURSIVE ListsUpTo(_, _)
ListsUpTo(S, n) ==
    IF n = 0 THEN {<<>>}
    ELSE LET shorter == ListsUpTo(S, n - 1)
         IN shorter \cup {Append(l, x) : l \in shorter, x \in S}

InitPersona ==
    /\ apiKey = TRUE
    /\ InitClient
    /\ InitSessions
    /\ InitChat
    /\ personaIn \in ListsUpTo(PersonaAnswers, MaxAnswers)
    /\ personaOut = <<>>
    /\ InitNoTemplate

\* detectPersona(personaIn) is evaluated
ApplyDetectPersona ==
    /\ personaOut = <<>>
    /\ personaOut' = <<detectPersona(personaIn)>>
    /\ UNCHANGED <<personaIn, tplIn, tplOut, apiKey, notPersona>>

NextPersona ==
    \/ ApplyDetectPersona

SpecPersona == InitPersona /\ [][NextPersona]_vars

\* C20: for a non-empty list of answers with average word count avg,
\* detectPersona returns efficient if avg < 30, else chatty if avg > 150,
\* else confused if some answer contains an uncertainty phrase, else
\* edge-case.
C20_DocumentedPersona ==
    (personaOut # <<>> /\ personaIn # <<>>) =>
        personaOut[1] =
            IF TotalWords(personaIn) < 30 * Len(personaIn) THEN "efficient"
            ELSE IF TotalWords(personaIn) > 150 * Len(personaIn) THEN "chatty"
            ELSE IF \E i \in 1..Len(personaIn) :
                        personaIn[i].phrase \in {"don't know", "not sure"}
                 THEN "confused"
            ELSE "edge-case"

\* ---------------------------------------------------------------------------
\* Interview sessions (src/lib/interviewEngine.ts) and the start-interview
\* route.  A call of generateResponse made by the engine is one pending
\* step that ends with a generated text or with a thrown error.  The
\* timestamps of messages and sessions are left out: no code reads them.
\*
\* The text of a message is a record: the user's answer a, the k-th text
\* generated for the session, the fixed closing message, a system prompt
\* (tagged with the persona whose instructions it carries) or the
\* instruction for an action.
\* ---------------------------------------------------------------------------
\* bounds: the submitAnswer calls of a run, and those of them that throw
MaxSubmits == 7

MaxThrows == 1

\* interviewEngine.ts:127  wordCount < 30
ShallowBelow == 30

\* the string ""
NoAnswer ==
    [lead |-> FALSE, words |-> 0, trail |-> FALSE, period |-> FALSE,
     phrase |-> ""]

AnswerText(a) == [kind |-> "answer", n |-> 0, ans |-> a, tag |-> ""]

GeneratedText(k) == [kind |-> "generated", n |-> k, ans |-> NoAnswer, tag |-> ""]

\* interviewEngine.ts:169-170
ThankYouText == [kind |-> "thank-you", n |-> 0, ans |-> NoAnswer, tag |-> ""]

\* interviewEngine.ts:20-31, 118-123  the prompts of the role, followed by
\* the instructions of the persona unless it is null
addPersonaInstructions(role, persona) ==
    [kind |-> "system-prompt", n |-> 0, ans |-> NoAnswer,
     tag |-> IF persona = <<>> THEN "" ELSE persona[1]]

\* interviewEngine.ts:150, 163  the instruction that ends the messages
InstructionFor(action) ==
    [kind |-> "instruction", n |-> 0, ans |-> NoAnswer, tag |-> action]

\* the request bodies of POST /api/start-interview; "" and 0 stand for an
\* absent (or falsy) field
Roles == {"sales"}

Durations == {15, 21, 25, 45}

StartBodies ==
    [role : Roles \cup {""}, persona : {"efficient", ""},
     duration : Durations \cup {0}]

\* the answers submitted: the first answer of a session, and the later ones
FirstAnswers ==
    {a \in Answers :
        \/ a.words = 0 /\ a.lead
        \/ a.words = 2 /\ ~a.lead /\ ~a.trail /\ a.period /\ a.phrase = "not sure"
        \/ a.words = 29 /\ ~a.lead /\ a.trail /\ a.period /\ a.phrase = ""
        \/ a.words = 30 /\ ~a.lead /\ ~a.trail /\ a.period
                        /\ a.phrase \in {"", "don't know"}
        \/ a.words = 150 /\ ~a.lead /\ ~a.trail /\ ~a.period /\ a.phrase = ""
        \/ a.words = 151 /\ ~a.lead /\ ~a.trail /\ a.period /\ a.phrase = ""}

LaterAnswers ==
    {a \in Answers :
        /\ ~a.lead /\ ~a.trail /\ a.phrase = "" /\ a.period
        /\ a.words \in {2, 30}}

Min(a, b) == IF a <= b THEN a ELSE b

Max(a, b) == IF a >= b THEN a ELSE b

\* Math.ceil(duration / 5) for an integer duration
CeilDiv5(d) == -((-d) \div 5)

\* interviewEngine.ts:65  Math.min(Math.max(Math.ceil(duration / 5), 4), 6)
MaxTurnsFor_floor(duration) == Min(Max(duration \div 5, 4), 6)

MaxTurnsFor(duration) == Min(Max(CeilDiv5(duration), 4), 6)

\* interviewEngine.ts:59-76  the session startSession creates
NewSession_empty(id, role, duration, firstQuestion) ==
    [id |-> id,
     role |-> role,
     detectedPersona |-> <<>>,
     duration |-> duration,
     turnCount |-> 0,
     maxTurns |-> MaxTurnsFor(duration),
     history |-> <<>>,
     state |-> "in-progress"]

NewSession(id, role, duration, firstQuestion) ==
    [id |-> id,
     role |-> role,
     detectedPersona |-> <<>>,
     duration |-> duration,
     turnCount |-> 1,
     maxTurns |-> MaxTurnsFor(duration),
     history |-> << [speaker |-> "assistant", content |-> firstQuestion] >>,
     state |-> "in-progress"]

\* number of texts generated for the session so far
RECURSIVE Generated(_)
Generated(history) ==
    IF history = <<>> THEN 0
    ELSE (IF Head(history).content.kind = "generated" THEN 1 ELSE 0)
         + Generated(Tail(history))

\* interviewEngine.ts:110-112  history.filter(speaker === 'user').map(content)
RECURSIVE UserAnswers(_)
UserAnswers(history) ==
    IF history = <<>> THEN <<>>
    ELSE IF Head(history).speaker = "user"
         THEN <<Head(history).content.ans>> \o UserAnswers(Tail(history))
         ELSE UserAnswers(Tail(history))

\* interviewEngine.ts:142-145, 155-158  history.map(speaker -> role)
HistoryAsMessages(history) ==
    [j \in 1..Len(history) |->
        [role |-> IF history[j].speaker = "user" THEN "user" ELSE "assistant",
         content |-> history[j].content]]

\* openrouter.ts:108-118
buildMessages_userFirst(systemPrompt, history, userMessage) ==
    << [role |-> "system", content |-> systemPrompt],
       [role |-> "user", content |-> userMessage] >> \o history

buildMessages(systemPrompt, history, userMessage) ==
    << [role |-> "system", content |-> systemPrompt] >>
    \o history
    \o << [role |-> "user", content |-> userMessage] >>

\* interviewEngine.ts:126  userAnswer.trim().split(/\s+/).length
TrimSplitLen(a) == IF a.words = 0 THEN 1 ELSE a.words

\* interviewEngine.ts:127  wordCount < 30 || userAnswer.split('.').length === 1
isShallowAnswer_wordsOnly(a) == TrimSplitLen(a) < ShallowBelow

isShallowAnswer(a) == TrimSplitLen(a) < ShallowBelow \/ ~a.period

\* interviewEngine.ts:130-136
ChooseAction_after(turnCount, maxTurns, a) ==
    IF turnCount > maxTurns THEN "end-interview"
    ELSE IF isShallowAnswer(a) THEN "followup"
    ELSE "next-question"

ChooseAction_exact(turnCount, maxTurns, a) ==
    IF turnCount = maxTurns THEN "end-interview"
    ELSE IF isShallowAnswer(a) THEN "followup"
    ELSE "next-question"

ChooseAction(turnCount, maxTurns, a) ==
    IF turnCount >= maxTurns THEN "end-interview"
    ELSE IF isShallowAnswer(a) THEN "followup"
    ELSE "next-question"

\* interviewEngine.ts:109-115  the persona after the answer was recorded
DetectOnce_always(persona, history) == <<detectPersona(UserAnswers(history))>>

DetectOnce(persona, history) ==
    IF persona = <<>> THEN <<detectPersona(UserAnswers(history))>> ELSE persona

NoCallInProgress ==
    /\ startCall = <<>>
    /\ fbCall = <<>>
    /\ \A i \in SubmitSlots : subs[i].stage = "idle"

\* part_003:5-14, interviewEngine.ts:33-56  POST /api/start-interview is
\* called with body b: 400 when a field is missing, otherwise startSession
\* generates an id and waits for the first question
StartInterview ==
    /\ NoCallInProgress
    /\ \E id \in SessionIds : sessions[id] = <<>>
    /\ \E b \in StartBodies :
        IF b.role = "" \/ b.persona = "" \/ b.duration = 0
        THEN /\ startResp' = << [status |-> 400, sessionId |-> UnknownId,
                                 firstQuestion |-> <<>>, maxTurns |-> 0,
                                 request |-> b] >>
             /\ startResp' # startResp
             /\ UNCHANGED startCall
        ELSE /\ startCall' = << [id |-> CHOOSE id \in SessionIds : sessions[id] = <<>>,
                                 role |-> b.role, duration |-> b.duration,
                                 request |-> b] >>
             /\ UNCHANGED startResp
    /\ UNCHANGED <<sessions, subs, lastReturn, begun, threw, fbCall, fbReturn>>
    /\ UNCHANGED <<apiKey, notSessions>>

\* interviewEngine.ts:53-79, part_003:14-22  generateResponse returned the
\* first question: the session is stored and the route answers 200
StartFinish ==
    /\ startCall # <<>>
    /\ LET c == startCall[1]
           firstQuestion == GeneratedText(1)
       IN /\ sessions' = [sessions EXCEPT ![c.id] =
                             <<NewSession(c.id, c.role, c.duration, firstQuestion)>>]
          /\ startResp' = << [status |-> 200, sessionId |-> c.id,
                              firstQuestion |-> <<firstQuestion>>,
                              maxTurns |-> 6, request |-> c.request] >>
    /\ startCall' = <<>>
    /\ UNCHANGED <<subs, lastReturn, begun, threw, fbCall, fbReturn>>
    /\ UNCHANGED <<apiKey, notSessions>>

\* interviewEngine.ts:53, part_003:23-28  generateResponse threw: nothing is
\* stored and the route answers 500
StartFail ==
    /\ startCall # <<>>
    /\ startResp' = << [status |-> 500, sessionId |-> UnknownId,
                        firstQuestion |-> <<>>, maxTurns |-> 0,
                        request |-> startCall[1].request] >>
    /\ startResp' # startResp
    /\ startCall' = <<>>
    /\ UNCHANGED <<sessions, subs, lastReturn, begun, threw, fbCall, fbReturn>>
    /\ UNCHANGED <<apiKey, notSessions>>

\* interviewEngine.ts:98, 200  new Error(`Session ${sessionId} not found`)
SessionNotFoundError_typeError(sid) == [kind |-> "threw", sid |-> sid]

SessionNotFoundError(sid) == [kind |-> "not-found", sid |-> sid]

\* interviewEngine.ts:96-99  submitAnswer throws `Session ... not found`
SubmitNotFound(i, sid) ==
    /\ threw < MaxThrows
    /\ threw' = threw + 1
    /\ begun' = begun + 1
    /\ lastReturn' = [NoReturn EXCEPT !.kind = SessionNotFoundError(sid).kind,
                                      !.call = begun',
                                      !.sid = SessionNotFoundError(sid).sid]
    /\ UNCHANGED <<sessions, subs>>

\* interviewEngine.ts:101-118  the answer is pushed and the persona detected;
\* the call then waits for the prompt files
SubmitRecord(i, sid, a) ==
    LET s == sessions[sid][1]
        history == Append(s.history, [speaker |-> "user", content |-> AnswerText(a)])
    IN /\ sessions' = [sessions EXCEPT ![sid] =
                          << [s EXCEPT !.history = history,
                                       !.detectedPersona = DetectOnce(@, history)] >>]
       /\ begun' = begun + 1
       /\ subs' = [subs EXCEPT ![i] =
                      [IdleSlot EXCEPT !.stage = "loading", !.call = begun',
                                       !.sid = sid, !.answer = <<a>>,
                                       !.turnAtCall = s.turnCount,
                                       !.before = <<s>>]]
       /\ UNCHANGED <<lastReturn, threw>>

\* the answers a caller submits to session id sid
AnswersFor(sid) ==
    IF /\ sid \in SessionIds
       /\ sessions[sid] # <<>>
       /\ UserAnswers(sessions[sid][1].history) = <<>>
    THEN FirstAnswers
    ELSE LaterAnswers

\* the request bodies a client sends that always gives a session id and an
\* answer, as ChatInterface does
ClientBodies ==
    UNION {{[sessionId |-> sid, answer |-> <<a>>] : a \in AnswersFor(sid)} :
              sid \in SessionIds \cup {UnknownId}}

\* any request body: the sessionId may be missing (""), the answer absent
\* or the empty string
AnyBodies ==
    UNION {{[sessionId |-> sid, answer |-> x] :
               x \in {<<>>, <<NoAnswer>>} \cup {<<a>> : a \in AnswersFor(sid)}} :
              sid \in SessionIds \cup {UnknownId, ""}}

\* interviewEngine.ts:96-118  submitAnswer(sid, a) is called in slot i
SubmitBegin(i, sid, a) ==
    /\ subs[i].stage = "idle"
    /\ begun < MaxSubmits
    /\ IF sid \notin SessionIds \/ sessions[sid] = <<>>
       THEN SubmitNotFound(i, sid)
       ELSE SubmitRecord(i, sid, a)
    /\ UNCHANGED <<startCall, startResp, fbCall, fbReturn>>
    /\ UNCHANGED <<apiKey, notSessions>>

\* route.ts:10  !sessionId || !answer
MissingField_absentOnly(sessionId, answer) == sessionId = "" \/ answer = <<>>

MissingField(sessionId, answer) ==
    sessionId = "" \/ answer = <<>> \/ answer = <<NoAnswer>>

\* route.ts:10-15  the route answers 400 and submitAnswer is not called
SubmitBadRequest(sessionId, answer) ==
    /\ threw < MaxThrows
    /\ threw' = threw + 1
    /\ lastReturn' = [NoReturn EXCEPT !.kind = "bad-request",
                                      !.sid = sessionId, !.answer = answer]
    /\ UNCHANGED <<sessions, subs, begun, startCall, startResp, fbCall, fbReturn>>
    /\ UNCHANGED <<apiKey, notSessions>>

\* route.ts:5-17  POST /api/submit-answer with body {sessionId, answer}
PostSubmitAnswer(i, bodies) ==
    \E body \in bodies :
        IF MissingField(body.sessionId, body.answer)
        THEN SubmitBadRequest(body.sessionId, body.answer)
        ELSE SubmitBegin(i, body.sessionId, body.answer[1])

\* interviewEngine.ts:184-191  the value submitAnswer returns
ReturnValue(slot, s, action, response) ==
    [kind |-> "ok", call |-> slot.call, sid |-> slot.sid, answer |-> slot.answer,
     turnAtCall |-> slot.turnAtCall, action |-> action,
     assistantResponse |-> <<response>>, turnCount |-> s.turnCount,
     maxTurns |-> s.maxTurns, detectedPersona |-> s.detectedPersona,
     before |-> slot.before]

\* interviewEngine.ts:174-182  the response is pushed and the turn counted
WithResponse_noCount(s, response) ==
    [s EXCEPT !.history = Append(@, [speaker |-> "assistant", content |-> response])]

WithResponse(s, response) ==
    [s EXCEPT !.history = Append(@, [speaker |-> "assistant", content |-> response]),
              !.turnCount = @ + 1]

\* interviewEngine.ts:118-172  the prompts are loaded: the action is chosen;
\* end-interview completes the session and returns, the other actions call
\* generateResponse with the messages built from the history
SubmitDecide(i) ==
    /\ subs[i].stage = "loading"
    /\ LET slot == subs[i]
           s == sessions[slot.sid][1]
           prompt == addPersonaInstructions(s.role, s.detectedPersona)
           action == ChooseAction(s.turnCount, s.maxTurns, slot.answer[1])
       IN IF action = "end-interview"
          THEN LET done == WithResponse([s EXCEPT !.state = "completed"],
                                        ThankYouText)
               IN /\ sessions' = [sessions EXCEPT ![slot.sid] = <<done>>]
                  /\ lastReturn' = ReturnValue(slot, done, action, ThankYouText)
                  /\ subs' = [subs EXCEPT ![i] = IdleSlot]
          ELSE /\ subs' = [subs EXCEPT ![i] =
                              [slot EXCEPT !.stage = "generating",
                                           !.action = action,
                                           !.messages = buildMessages(prompt,
                                               HistoryAsMessages(s.history),
                                               InstructionFor(action))]]
               /\ UNCHANGED <<sessions, lastReturn>>
    /\ UNCHANGED <<startCall, startResp, begun, threw, fbCall, fbReturn>>
    /\ UNCHANGED <<apiKey, notSessions>>

\* interviewEngine.ts:146-191  generateResponse returned a text: the effect
\* on the session and on the call
SubmitFinishStep(i) ==
    /\ subs[i].stage = "generating"
    /\ LET slot == subs[i]
           s == sessions[slot.sid][1]
           response == GeneratedText(Generated(s.history) + 1)
           next == WithResponse(s, response)
       IN /\ sessions' = [sessions EXCEPT ![slot.sid] = <<next>>]
          /\ lastReturn' = ReturnValue(slot, next, slot.action, response)
    /\ subs' = [subs EXCEPT ![i] = IdleSlot]
    /\ UNCHANGED <<startCall, startResp, begun, threw, fbCall, fbReturn>>

SubmitFinish(i) == SubmitFinishStep(i) /\ UNCHANGED <<apiKey, notSessions>>

\* interviewEngine.ts:146-166  generateResponse threw and so does
\* submitAnswer: the effect on the call
SubmitFailStep(i) ==
    /\ subs[i].stage = "generating"
    /\ threw < MaxThrows
    /\ threw' = threw + 1
    /\ lastReturn' = [NoReturn EXCEPT !.kind = "threw", !.call = subs[i].call,
                                      !.sid = subs[i].sid,
                                      !.answer = subs[i].answer,
                                      !.turnAtCall = subs[i].turnAtCall,
                                      !.action = subs[i].action,
                                      !.before = subs[i].before]
    /\ subs' = [subs EXCEPT ![i] = IdleSlot]
    /\ UNCHANGED <<sessions, startCall, startResp, begun, fbCall, fbReturn>>

SubmitFail(i) == SubmitFailStep(i) /\ UNCHANGED <<apiKey, notSessions>>

\* ---------------------------------------------------------------------------
\* submitAnswer together with the generateResponse it calls: the call in
\* slot i runs generateResponse on the locals calls[i].
\* ---------------------------------------------------------------------------
\* bound: the submitAnswer calls of a run in which the model calls are run
MaxEngineCalls == 5

\* route.ts:5-17  an answer is posted for a stored session
EngineSubmit ==
    /\ NoCallInProgress
    /\ begun < MaxEngineCalls
    /\ PostSubmitAnswer(1, {[sessionId |-> sid, answer |-> <<a>>] :
                               sid \in {id \in SessionIds : sessions[id] # <<>>},
                               a \in LaterAnswers})

\* interviewEngine.ts:146, 159  submitAnswer calls generateResponse
EngineInvoke ==
    \E i \in SubmitSlots : subs[i].stage = "generating" /\ CCall(i)

\* interviewEngine.ts:146-191  generateResponse returned: submitAnswer goes
\* on and returns; the locals of the finished invocation are gone
EngineReturn ==
    \E i \in SubmitSlots :
        /\ calls[Frame(i)].pc = "returned"
        /\ SubmitFinishStep(i)
        /\ calls' = [calls EXCEPT ![Frame(i)] = InitLocals]
        /\ actor' = i
        /\ UNCHANGED <<clientVars, personaVars, chat>>

\* interviewEngine.ts:146-166  generateResponse threw: so does submitAnswer
EngineThrow ==
    \E i \in SubmitSlots :
        /\ calls[Frame(i)].pc = "thrown"
        /\ SubmitFailStep(i)
        /\ calls' = [calls EXCEPT ![Frame(i)] = InitLocals]
        /\ actor' = i
        /\ UNCHANGED <<clientVars, personaVars, chat>>

\* ---------------------------------------------------------------------------
\* The text generateFeedback receives from the model, by what the parsing
\* code observes of it.  form: "json" the trimmed text is a JSON object;
\* "fenced" a JSON object inside a markdown code block; "embedded" a JSON
\* object with prose around it; "braces" a '{' with a later '}' but no JSON
\* from the first '{' to the last '}'; "prose" no such braces; "null" and
\* "number" the JSON texts null and 5.  obj: the fields of the object, a
\* non-array value being a non-empty string or a non-zero number.
\* ---------------------------------------------------------------------------
Scores == {-3, 0, 1, 10, 11}

\* the objects: every score with the other fields as the prompt asks for
\* them, and every kind of the other fields with a score in range
FeedbackObjects ==
    [overallScore : {<<>>} \cup {<<n>> : n \in Scores},
     strengths : {"array"},
     areasForImprovement : {"array"},
     weaknesses : {"absent"},
     actionableTips : {"array"},
     roleEvaluation : {"string"}]
    \cup
    [overallScore : {<<10>>},
     strengths : {"absent", "array", "string"},
     areasForImprovement : {"absent", "array", "number"},
     weaknesses : {"absent", "array", "number"},
     actionableTips : {"absent", "array", "number"},
     roleEvaluation : {"string"}]
    \cup
    [overallScore : {<<10>>},
     strengths : {"array"},
     areasForImprovement : {"absent", "array"},
     weaknesses : {"absent", "array"},
     actionableTips : {"array"},
     roleEvaluation : {"absent"}]

NoObject ==
    [overallScore |-> <<>>, strengths |-> "absent",
     areasForImprovement |-> "absent", weaknesses |-> "absent",
     actionableTips |-> "absent", roleEvaluation |-> "absent"]

FeedbackTexts ==
    [form : {"json", "fenced", "embedded"}, obj : FeedbackObjects]
    \cup [form : {"braces", "prose", "null", "number"}, obj : {NoObject}]

\* the outcome of a parsing attempt: a report, or a thrown error
ParseThrew == [ok |-> FALSE, path |-> "", report |-> NoReport]

Parsed(path, report) == [ok |-> TRUE, path |-> path, report |-> report]

\* interviewEngine.ts:264, 285  the score of a report without one
DefaultScore == 6

\* interviewEngine.ts:236, 264  Math.min(10, Math.max(1, score))
ClampScore_lowOnly(score) == Max(1, score)

ClampScore(score) == Min(10, Max(1, score))

\* !feedback.overallScore : absent or 0
NoScore(o) == o.overallScore = <<>> \/ o.overallScore = <<0>>

\* interviewEngine.ts:231-247  the report built from the object parsed from
\* the whole text; a missing required field throws, and so does
\* feedback.weaknesses?.slice when weaknesses is not sliceable
DirectReport(o) ==
    IF \/ NoScore(o)
       \/ o.strengths = "absent"
       \/ o.actionableTips = "absent"
       \/ o.roleEvaluation = "absent"
    THEN ParseThrew
    ELSE IF o.areasForImprovement # "array" /\ o.weaknesses = "number"
    THEN ParseThrew
    ELSE Parsed("direct",
             [overallScore |-> ClampScore(o.overallScore[1]),
              strengths |-> IF o.strengths = "array" THEN "given" ELSE "default",
              areasForImprovement |->
                  IF o.areasForImprovement = "array" THEN "given"
                  ELSE IF o.weaknesses = "array" THEN "weaknesses"
                  ELSE "default",
              actionableTips |->
                  IF o.actionableTips = "array" THEN "given" ELSE "default",
              roleEvaluation |-> "given"])

\* interviewEngine.ts:226-247  JSON.parse(feedbackJson.trim()) and the
\* validation: SyntaxError unless the text is JSON; null has no fields to
\* read (TypeError) and a number has none of the required fields
ParseDirect(text) ==
    IF text.form = "json" THEN DirectReport(text.obj) ELSE ParseThrew

\* interviewEngine.ts:261-275  the report built from the object extracted
\* from the text; ?.slice throws when the field is present but not sliceable
ExtractedReport(o) ==
    IF \/ o.areasForImprovement = "number"
       \/ o.areasForImprovement = "absent" /\ o.weaknesses = "number"
       \/ o.actionableTips = "number"
    THEN ParseThrew
    ELSE Parsed("extracted",
             [overallScore |-> ClampScore(IF NoScore(o) THEN DefaultScore
                                          ELSE o.overallScore[1]),
              strengths |-> IF o.strengths = "absent" THEN "default" ELSE "given",
              areasForImprovement |->
                  IF o.areasForImprovement = "array" THEN "given"
                  ELSE IF o.weaknesses = "array" THEN "weaknesses"
                  ELSE "default",
              actionableTips |->
                  IF o.actionableTips = "array" THEN "given" ELSE "default",
              roleEvaluation |->
                  IF o.roleEvaluation = "absent" THEN "default" ELSE "given"])

\* interviewEngine.ts:252-279  the code fences are removed and the text from
\* the first '{' to the last '}' is parsed; without such a text, or when
\* JSON.parse or the construction of the report throws, nothing is returned
ParseExtracted(text) ==
    IF text.form \in {"json", "fenced", "embedded"}
    THEN ExtractedReport(text.obj)
    ELSE ParseThrew

\* interviewEngine.ts:284-302  the fallback feedback
FallbackReport ==
    Parsed("fallback",
        [overallScore |-> DefaultScore, strengths |-> "default",
         areasForImprovement |-> "default", actionableTips |-> "default",
         roleEvaluation |-> "default"])

\* interviewEngine.ts:226-303  what generateFeedback does with the text:
\* the outer catch covers the direct parse, the inner catch the extraction
ParseFeedback_noInnerCatch(text) ==
    IF ParseDirect(text).ok THEN ParseDirect(text)
    ELSE IF text.form \in {"braces", "prose", "null", "number"} THEN FallbackReport
    ELSE ParseExtracted(text)

ParseFeedback(text) ==
    IF ParseDirect(text).ok THEN ParseDirect(text)
    ELSE IF ParseExtracted(text).ok THEN ParseExtracted(text)
    ELSE FallbackReport

\* the texts the model answers a feedback request of SpecSession with
SessionFeedbackTexts ==
    { [form |-> "json",
       obj |-> [overallScore |-> <<10>>, strengths |-> "array",
                areasForImprovement |-> "array", weaknesses |-> "absent",
                actionableTips |-> "array", roleEvaluation |-> "string"]] }

\* interviewEngine.ts:197-223  generateFeedback(sid) is called: it throws
\* when the session is not found, otherwise it renders the prompt from the
\* session's role, persona and history and waits for generateResponse
GenerateFeedbackCall ==
    /\ NoCallInProgress
    /\ \E sid \in SessionIds \cup {UnknownId} :
        IF sid \notin SessionIds \/ sessions[sid] = <<>>
        THEN /\ fbReturn' = [NoFeedback EXCEPT
                                !.kind = SessionNotFoundError(sid).kind,
                                !.sid = SessionNotFoundError(sid).sid]
             /\ fbReturn' # fbReturn
             /\ UNCHANGED fbCall
        ELSE /\ fbCall' = << [sid |-> sid] >>
             /\ UNCHANGED fbReturn
    /\ UNCHANGED <<sessions, startCall, startResp, subs, lastReturn, begun, threw>>
    /\ UNCHANGED <<apiKey, notSessions>>

\* interviewEngine.ts:216-304  generateResponse returned one of `texts`: it
\* is parsed and the report is returned (an error escaping the parsing
\* would be thrown)
FeedbackFinish_completes(texts) ==
    /\ fbCall # <<>>
    /\ fbCall' = <<>>
    /\ \E t \in texts :
        LET out == ParseFeedback(t)
        IN fbReturn' = [kind |-> IF out.ok THEN "report" ELSE "threw",
                        sid |-> fbCall[1].sid,
                        text |-> <<t>>,
                        path |-> out.path,
                        report |-> out.report]
    /\ sessions' = [sessions EXCEPT ![fbCall[1].sid] =
                       << [@[1] EXCEPT !.state = "completed"] >>]
    /\ UNCHANGED <<startCall, startResp, subs, lastReturn, begun, threw>>
    /\ UNCHANGED <<apiKey, notSessions>>

FeedbackFinish(texts) ==
    /\ fbCall # <<>>
    /\ fbCall' = <<>>
    /\ \E t \in texts :
        LET out == ParseFeedback(t)
        IN fbReturn' = [kind |-> IF out.ok THEN "report" ELSE "threw",
                        sid |-> fbCall[1].sid,
                        text |-> <<t>>,
                        path |-> out.path,
                        report |-> out.report]
    /\ UNCHANGED <<sessions, startCall, startResp, subs, lastReturn, begun, threw>>
    /\ UNCHANGED <<apiKey, notSessions>>

GenerateFeedbackFinish == FeedbackFinish(SessionFeedbackTexts)

\* interviewEngine.ts:216-223  generateResponse threw and so does
\* generateFeedback
GenerateFeedbackFail ==
    /\ fbCall # <<>>
    /\ fbCall' = <<>>
    /\ fbReturn' = [NoFeedback EXCEPT !.kind = "threw", !.sid = fbCall[1].sid]
    /\ UNCHANGED <<sessions, startCall, startResp, subs, lastReturn, begun, threw>>
    /\ UNCHANGED <<apiKey, notSessions>>

\* a caller that submits one answer at a time, as ChatInterface does
SubmitAnswerCall == NoCallInProgress /\ PostSubmitAnswer(1, ClientBodies)

\* a client that posts any body
PostAnyAnswer == NoCallInProgress /\ PostSubmitAnswer(1, AnyBodies)

SubmitAnswerDecide == \E i \in SubmitSlots : SubmitDecide(i)

SubmitAnswerFinish == \E i \in SubmitSlots : SubmitFinish(i)

SubmitAnswerFail == \E i \in SubmitSlots : SubmitFail(i)

NextSessions ==
    \/ StartInterview
    \/ StartFinish
    \/ StartFail
    \/ SubmitAnswerCall
    \/ SubmitAnswerDecide
    \/ SubmitAnswerFinish
    \/ SubmitAnswerFail
    \/ GenerateFeedbackCall
    \/ GenerateFeedbackFinish
    \/ GenerateFeedbackFail

\* generateFeedback receives any of FeedbackTexts
GenerateFeedbackParse == FeedbackFinish(FeedbackTexts)

\* sessions are started and feedback is requested for them
NextFeedback ==
    \/ StartInterview
    \/ StartFinish
    \/ StartFail
    \/ GenerateFeedbackCall
    \/ GenerateFeedbackParse
    \/ GenerateFeedbackFail

\* bound: the submitAnswer calls of a run of a client that does not wait
MaxOverlapping == 3

\* the request bodies of a client that does not wait for the response: the
\* id of a stored session and a short or a long answer
OverlapBodies ==
    {[sessionId |-> sid, answer |-> <<a>>] :
        sid \in {id \in SessionIds : sessions[id] # <<>>}, a \in LaterAnswers}

\* a request is posted while no session is being started: the handler may
\* run while an earlier submitAnswer call awaits the prompts or the model
SubmitOverlappingCall ==
    /\ startCall = <<>>
    /\ fbCall = <<>>
    /\ begun < MaxOverlapping
    /\ \E i \in SubmitSlots : PostSubmitAnswer(i, OverlapBodies)

\* sessions are started and answers are submitted without waiting for the
\* response to the one before
NextOverlap ==
    \/ StartInterview
    \/ StartFinish
    \/ StartFail
    \/ SubmitOverlappingCall
    \/ SubmitAnswerDecide
    \/ SubmitAnswerFinish
    \/ SubmitAnswerFail

\* sessions are started and answers submitted one after another, each
\* model call of submitAnswer being run by the client
NextEngine ==
    \/ StartInterview
    \/ StartFinish
    \/ StartFail
    \/ EngineSubmit
    \/ SubmitAnswerDecide
    \/ EngineInvoke
    \/ CallsResolve
    \/ CallsReject
    \/ CallsTimerFire
    \/ CallsResume
    \/ EngineReturn
    \/ EngineThrow

\* sessions are started and any request is posted to /api/submit-answer
NextRoute ==
    \/ StartInterview
    \/ StartFinish
    \/ StartFail
    \/ PostAnyAnswer
    \/ SubmitAnswerDecide
    \/ SubmitAnswerFinish
    \/ SubmitAnswerFail

InitSession ==
    /\ apiKey = TRUE
    /\ InitClient
    /\ InitNoPersona
    /\ InitSessions
    /\ InitChat

SpecSession == InitSession /\ [][NextSessions]_vars

SpecFeedback == InitSession /\ [][NextFeedback]_vars

SpecRoute == InitSession /\ [][NextRoute]_vars

SpecOverlap == InitSession /\ [][NextOverlap]_vars

SpecEngine == InitSession /\ [][NextEngine]_vars

\* ------------------------------------------- vocabulary of the session claims
Stored == {id \in SessionIds : sessions[id] # <<>>}

SessionOf(id) == sessions[id][1]

IsPrefix(s, t) == Len(s) <= Len(t) /\ SubSeq(t, 1, Len(s)) = s

\* the answer has fewer than 30 words or no period in it
ShallowAsClaimed(a) == a.words < 30 \/ ~a.period

\* C13: the messages sent to the model keep the chronological order.  The
\* messages submitAnswer passes are the system prompt, then every message of
\* the session history in its order, none dropped or duplicated, then the
\* latest user message (the instruction); the history itself only grows at
\* its end, so it is in the order in which the turns were recorded, the
\* generated texts in the order of their generation.
C13_MessagesOfCall(i) ==
    LET m == subs[i].messages
        h == SessionOf(subs[i].sid).history
    IN /\ Len(m) = Len(h) + 2
       /\ m[1].role = "system"
       /\ m[1].content.kind = "system-prompt"
       /\ \A j \in 1..Len(h) :
              /\ m[j + 1].content = h[j].content
              /\ m[j + 1].role = h[j].speaker
       /\ m[Len(m)] = [role |-> "user", content |-> InstructionFor(subs[i].action)]
       /\ h[Len(h)] = [speaker |-> "user",
                       content |-> AnswerText(subs[i].answer[1])]

C13_Chronological ==
    /\ \A i \in SubmitSlots :
           subs[i].stage = "generating" => C13_MessagesOfCall(i)
    /\ \A id \in Stored :
           LET h == SessionOf(id).history
           IN \A j, k \in 1..Len(h) :
                  (j < k /\ h[j].content.kind = "generated"
                         /\ h[k].content.kind = "generated")
                      => h[j].content.n < h[k].content.n

C13_OrderPreserved ==
    /\ [](C13_Chronological)
    /\ [][\A id \in Stored :
             /\ sessions'[id] # <<>>
             /\ IsPrefix(SessionOf(id).history, sessions'[id][1].history)]_vars

C13_Witness ==
    \E i \in SubmitSlots :
        /\ subs[i].stage = "generating"
        /\ Len(subs[i].messages) = 7
        /\ subs[i].messages[3].content.kind = "answer"
        /\ subs[i].messages[4].content = GeneratedText(2)
        /\ subs[i].messages[6].content.kind = "answer"

C16_EndsOnMaxTurnsthAnswer ==
    (threw = 0 /\ lastReturn.kind = "ok") =>
        /\ (lastReturn.action = "end-interview"
                <=> lastReturn.call >= lastReturn.maxTurns)
        /\ lastReturn.turnCount = lastReturn.call + 1
        /\ ((\A i \in SubmitSlots : subs[i].stage = "idle") =>
                /\ lastReturn.call = Len(UserAnswers(SessionOf(lastReturn.sid).history))
                /\ (lastReturn.call < lastReturn.maxTurns =>
                        /\ SessionOf(lastReturn.sid).state = "in-progress"
                        /\ Generated(SessionOf(lastReturn.sid).history)
                               = lastReturn.call + 1)
                /\ (lastReturn.call >= lastReturn.maxTurns =>
                        /\ SessionOf(lastReturn.sid).state = "completed"
                        /\ Generated(SessionOf(lastReturn.sid).history)
                               = lastReturn.maxTurns))

C16_Witness ==
    /\ threw = 0
    /\ lastReturn.kind = "ok"
    /\ lastReturn.call = 5
    /\ lastReturn.maxTurns = 5
    /\ lastReturn.action = "end-interview"

\* C17: a session's maxTurns is an integer from 4 to 6, namely the least
\* integer not below duration / 5 clamped to [4, 6]; it does not decrease
\* when the duration grows; and it never changes while the session lives.
C17_Clamped(duration, maxTurns) ==
    /\ maxTurns \in 4..6
    /\ maxTurns = (IF duration <= 20 THEN 4 ELSE IF duration <= 25 THEN 5 ELSE 6)
    /\ \A d \in Durations :
           /\ (d <= duration => MaxTurnsFor(d) <= maxTurns)
           /\ (d >= duration => MaxTurnsFor(d) >= maxTurns)

C18_StartReportsStoredMaxTurns ==
    /\ ((startResp # <<>> /\ startResp[1].status = 200) =>
            startResp[1].maxTurns = SessionOf(startResp[1].sessionId).maxTurns)
    /\ (lastReturn.kind = "ok" =>
            lastReturn.maxTurns = SessionOf(lastReturn.sid).maxTurns)

\* C19: a session's persona is null until its first submitAnswer, is then
\* the persona detected from the first user answer, and once set it is
\* never changed by a later submitAnswer or generateFeedback.
C19_PersonaOfFirstAnswer ==
    \A id \in Stored :
        LET answers == UserAnswers(SessionOf(id).history)
        IN /\ (answers = <<>> => SessionOf(id).detectedPersona = <<>>)
           /\ (answers # <<>> =>
                   SessionOf(id).detectedPersona = <<detectPersona(<<answers[1]>>)>>)

C19_PersonaSetOnce ==
    /\ [](C19_PersonaOfFirstAnswer)
    /\ [][\A id \in Stored :
             SessionOf(id).detectedPersona # <<>> =>
                 sessions'[id][1].detectedPersona = SessionOf(id).detectedPersona]_vars

C19_Witness ==
    \E id \in Stored :
        /\ SessionOf(id).detectedPersona = <<"chatty">>
        /\ Len(UserAnswers(SessionOf(id).history)) = 3
        /\ fbReturn.kind = "report"

\* part_000:5  type Persona
Personas == {"efficient", "chatty", "confused", "edge-case"}

\* C21: each of the four personas can be the persona detected for a
\* session: whenever a stored session has no user answer yet and a first
\* answer can be submitted, then for every persona there is a first answer
\* with which the submitAnswer call sets the session's detectedPersona to it.
C21_EveryPersonaDetectable ==
    \A id \in Stored :
        (/\ NoCallInProgress
         /\ begun < MaxSubmits
         /\ UserAnswers(SessionOf(id).history) = <<>>) =>
            \A p \in Personas :
                ENABLED (/\ SubmitAnswerCall
                         /\ sessions'[id] # <<>>
                         /\ sessions'[id][1].detectedPersona = <<p>>)

\* C22: when the first answer of a session contains "not sure" or
\* "don't know", the persona detected for the session is confused, whatever
\* the length of that answer.
C22_UncertainFirstAnswerIsConfused ==
    \A id \in Stored :
        LET answers == UserAnswers(SessionOf(id).history)
        IN (answers # <<>> /\ answers[1].phrase \in {"not sure", "don't know"})
               => SessionOf(id).detectedPersona = <<"confused">>

\* C23: generateFeedback returns a report only for a completed session,
\* never for one whose state is still in-progress.
C23_ReportOnlyWhenCompleted ==
    fbReturn.kind = "report" => SessionOf(fbReturn.sid).state = "completed"

\* C24: the overallScore of every report generateFeedback returns is from 1
\* to 10, whatever integer score the text carries and whichever way the
\* text was parsed.
C24_ScoreInRange ==
    fbReturn.kind = "report" =>
        /\ fbReturn.report.overallScore \in 1..10
        /\ fbReturn.path \in {"direct", "extracted", "fallback"}

C24_Witness ==
    /\ fbReturn.kind = "report"
    /\ fbReturn.path = "extracted"
    /\ fbReturn.text[1].form = "fenced"
    /\ fbReturn.text[1].obj.overallScore = <<11>>
    /\ fbReturn.report.overallScore = 10

\* the text is a JSON object that has the four required fields
C25_ValidJson(t) ==
    /\ t.form = "json"
    /\ t.obj.overallScore \notin {<<>>, <<0>>}
    /\ t.obj.strengths # "absent"
    /\ t.obj.actionableTips # "absent"
    /\ t.obj.roleEvaluation # "absent"

\* C25: whenever the model call of generateFeedback returned a text,
\* generateFeedback returns a report; for a text that is not valid JSON or
\* lacks a required field it is the report extracted from the text or the
\* default report.
C25_AlwaysAReport ==
    fbReturn.text # <<>> =>
        /\ fbReturn.kind = "report"
        /\ fbReturn.sid \in Stored
        /\ (~C25_ValidJson(fbReturn.text[1]) =>
                fbReturn.path \in {"extracted", "fallback"})
        /\ (fbReturn.path = "fallback" => fbReturn.report = FallbackReport.report)

C25_Witness ==
    /\ fbReturn.kind = "report"
    /\ fbReturn.path = "fallback"
    /\ fbReturn.text # <<>>
    /\ fbReturn.text[1].form = "embedded"
    /\ fbReturn.text[1].obj.actionableTips = "number"

\* C26: submitAnswer and generateFeedback called with a session id that is
\* not in the store fail with the 'Session ... not found' error: the step
\* that ends so leaves every stored session as it was, creates none and
\* starts no call that makes a model request; and every call that went on
\* (is in progress, returned, or failed otherwise) was given the id of a
\* stored session.
C26_KnownSessionsOnly ==
    /\ \A i \in SubmitSlots : subs[i].stage # "idle" => subs[i].sid \in Stored
    /\ (lastReturn.kind \in {"ok", "threw"} => lastReturn.sid \in Stored)
    /\ (fbCall # <<>> => fbCall[1].sid \in Stored)
    /\ (fbReturn.kind \in {"report", "threw"} => fbReturn.sid \in Stored)

C26_NotFoundStep ==
    /\ (lastReturn' # lastReturn /\ lastReturn'.kind = "not-found") =>
           /\ lastReturn'.sid \notin Stored
           /\ sessions' = sessions
           /\ subs' = subs
           /\ fbCall' = fbCall
           /\ startCall' = startCall
    /\ (fbReturn' # fbReturn /\ fbReturn'.kind = "not-found") =>
           /\ fbReturn'.sid \notin Stored
           /\ fbReturn'.text = <<>>
           /\ sessions' = sessions
           /\ subs' = subs
           /\ fbCall' = <<>>
           /\ startCall' = startCall

C26_UnknownSessionFails ==
    /\ [](C26_KnownSessionsOnly)
    /\ [][C26_NotFoundStep]_vars

C26_Witness ==
    /\ lastReturn.kind = "not-found"
    /\ lastReturn.sid = UnknownId
    /\ fbReturn.kind = "not-found"
    /\ fbReturn.sid = UnknownId
    /\ \E id \in Stored : Len(SessionOf(id).history) = 3

\* C27: POST /api/start-interview accepts a request that has role and
\* duration but no persona field: its response is not the 400 error, and
\* when the model answers it is the 200 response with the session's id, the
\* first question and maxTurns.
C27_PersonaNotRequired ==
    (/\ startResp # <<>>
     /\ startResp[1].request.role # ""
     /\ startResp[1].request.duration # 0
     /\ startResp[1].request.persona = "") =>
        /\ startResp[1].status # 400
        /\ (startResp[1].status = 200 =>
                /\ startResp[1].sessionId \in Stored
                /\ startResp[1].firstQuestion # <<>>
                /\ startResp[1].maxTurns \in 4..6)

\* C28: POST /api/submit-answer with a missing or empty sessionId or answer
\* answers 400 and does not call submitAnswer: no call that is in progress
\* or has ended was given an empty id or an absent or empty answer, no
\* history holds an empty answer, and the step that answers 400 starts no
\* call and leaves the sessions (history, turnCount, persona, state) as
\* they were.
C28_NoCallWithoutFields ==
    /\ \A i \in SubmitSlots :
           subs[i].stage # "idle" =>
               /\ subs[i].sid # ""
               /\ subs[i].answer \notin {<<>>, <<NoAnswer>>}
    /\ (lastReturn.kind \in {"ok", "threw"} =>
            /\ lastReturn.sid # ""
            /\ lastReturn.answer \notin {<<>>, <<NoAnswer>>})
    /\ (lastReturn.kind = "not-found" => lastReturn.sid # "")
    /\ (lastReturn.kind = "bad-request" =>
            lastReturn.sid = "" \/ lastReturn.answer \in {<<>>, <<NoAnswer>>})
    /\ \A id \in Stored :
           \A j \in 1..Len(SessionOf(id).history) :
               SessionOf(id).history[j].content # AnswerText(NoAnswer)

C28_BadRequestStep ==
    (lastReturn' # lastReturn /\ lastReturn'.kind = "bad-request") =>
        /\ sessions' = sessions
        /\ subs' = subs
        /\ begun' = begun

C28_BadRequestRejected ==
    /\ [](C28_NoCallWithoutFields)
    /\ [][C28_BadRequestStep]_vars

C28_Witness ==
    /\ lastReturn.kind = "bad-request"
    /\ lastReturn.sid \in Stored
    /\ lastReturn.answer = <<NoAnswer>>
    /\ Len(SessionOf(lastReturn.sid).history) = 3
    /\ begun = 1

\* ---------------------------------------------------------------------------
\* renderTemplate (src/lib/openrouter.ts).  A template is a sequence of
\* pieces: literal text without placeholders, or a placeholder {{KEY}}.
\* `variables` is the list of the supplied keys in the order of
\* Object.entries; the value of a key is a plain string (a role or persona
\* name) that holds no placeholder and no '$'.
\* ---------------------------------------------------------------------------
\* bound: the number of pieces of a template
MaxTemplate == 3

TemplateKeys == {"ROLE", "PERSONA", "OTHER"}

Placeholder(key) == [kind |-> "placeholder", key |-> key]

ValueOf(key) == [kind |-> "value", key |-> key]

LiteralText == [kind |-> "text", key |-> ""]

TemplatePieces == {LiteralText} \cup {Placeholder(k) : k \in TemplateKeys}

\* the lists of variables: the keys generateFeedback supplies, in any order
VariableLists ==
    {<<>>, <<"ROLE">>, <<"PERSONA">>, <<"ROLE", "PERSONA">>, <<"PERSONA", "ROLE">>}

\* openrouter.ts:143  result.replace(`{{${key}}}`, value): a string pattern
\* replaces its first occurrence only
RECURSIVE ReplaceString(_, _, _)
ReplaceString(s, pattern, value) ==
    IF s = <<>> THEN <<>>
    ELSE IF Head(s) = pattern THEN <<value>> \o Tail(s)
    ELSE <<Head(s)>> \o ReplaceString(Tail(s), pattern, value)

\* openrouter.ts:140-146
RECURSIVE renderTemplate(_, _)
renderTemplate(template, variables) ==
    IF variables = <<>> THEN template
    ELSE renderTemplate(
             ReplaceString(template, Placeholder(Head(variables)),
                           ValueOf(Head(variables))),
             Tail(variables))

InitTemplate ==
    /\ apiKey = TRUE
    /\ InitClient
    /\ InitSessions
    /\ InitChat
    /\ personaIn = <<>>
    /\ personaOut = <<>>
    /\ tplIn \in [template : ListsUpTo(TemplatePieces, MaxTemplate),
                  variables : VariableLists]
    /\ tplOut = <<>>

\* renderTemplate(tplIn.template, tplIn.variables) is evaluated
ApplyRenderTemplate ==
    /\ tplOut = <<>>
    /\ tplOut' = <<renderTemplate(tplIn.template, tplIn.variables)>>
    /\ UNCHANGED <<tplIn, personaIn, personaOut, apiKey, notPersona>>

NextTemplate ==
    \/ ApplyRenderTemplate

SpecTemplate == InitTemplate /\ [][NextTemplate]_vars

\* C29: the result of renderTemplate holds no placeholder {{key}} of a key
\* supplied in variables, also when the template holds the placeholder more
\* than once; the other pieces of the template are kept.
C29_NoSuppliedPlaceholderLeft ==
    tplOut # <<>> =>
        /\ Len(tplOut[1]) = Len(tplIn.template)
        /\ \A j \in 1..Len(tplOut[1]) :
               LET piece == tplIn.template[j]
                   supplied == {tplIn.variables[n] : n \in 1..Len(tplIn.variables)}
               IN tplOut[1][j] =
                      IF piece.kind = "placeholder" /\ piece.key \in supplied
                      THEN ValueOf(piece.key)
                      ELSE piece

\* C30: when submitAnswer fails because the model call fails, the session is
\* left as it was before the call: history, turnCount, detectedPersona and
\* state are those it had when the call started.
C30_FailedCallLeavesSession ==
    (/\ lastReturn.kind = "threw"
     /\ \A i \in SubmitSlots : subs[i].stage = "idle") =>
        sessions[lastReturn.sid] = lastReturn.before

\* the speakers of the history alternate, beginning with the assistant
C31_Alternates(history) ==
    \A j \in 1..Len(history) :
        history[j].speaker = (IF j % 2 = 1 THEN "assistant" ELSE "user")

\* C31: after startSession and submitAnswer calls that ran one after
\* another and all succeeded, the history alternates assistant, user,
\* assistant, ..., begins and ends with an assistant message and has
\* 2 * turnCount - 1 messages; while a call waits, its answer is the one
\* message more.
C31_HistoryAlternates ==
    threw = 0 =>
        \A id \in Stored :
            LET s == SessionOf(id)
                waiting == \E i \in SubmitSlots :
                               subs[i].stage # "idle" /\ subs[i].sid = id
            IN /\ C31_Alternates(s.history)
               /\ s.history[1].speaker = "assistant"
               /\ (~waiting =>
                       /\ Len(s.history) = 2 * s.turnCount - 1
                       /\ s.history[Len(s.history)].speaker = "assistant")
               /\ (waiting =>
                       /\ Len(s.history) = 2 * s.turnCount
                       /\ s.history[Len(s.history)].speaker = "user")

C31_Witness ==
    /\ threw = 0
    /\ NoCallInProgress
    /\ \E id \in Stored :
           /\ SessionOf(id).turnCount = 7
           /\ Len(SessionOf(id).history) = 13
           /\ SessionOf(id).state = "completed"

\* every user answer of the history is immediately followed by an assistant
\* message
C32_AnswersAnswered(history) ==
    \A j \in 1..Len(history) :
        history[j].speaker = "user" =>
            /\ j < Len(history)
            /\ history[j + 1].speaker = "assistant"

\* two calls that return one after the other for a session return
\* different turnCount values
C32_DistinctTurnCounts ==
    (/\ lastReturn' # lastReturn
     /\ lastReturn.kind = "ok"
     /\ lastReturn'.kind = "ok"
     /\ lastReturn'.sid = lastReturn.sid) =>
        lastReturn'.turnCount # lastReturn.turnCount

\* C32: when submitAnswer calls for a session overlap, the session is
\* mutated as if they ran one after another: once the calls have returned,
\* every user answer in the history is immediately followed by the
\* assistant response generated for it, and the calls return different
\* turnCount values.
C32_OverlapAsIfSequential ==
    /\ []((threw = 0 /\ \A i \in SubmitSlots : subs[i].stage = "idle") =>
              \A id \in Stored : C32_AnswersAnswered(SessionOf(id).history))
    /\ [][C32_DistinctTurnCounts]_vars

\* a call of submitAnswer for session id returns end-interview in this step
C33_ReturnsEnd(id) ==
    /\ lastReturn' # lastReturn
    /\ lastReturn'.kind = "ok"
    /\ lastReturn'.sid = id
    /\ lastReturn'.action = "end-interview"

C33_CompletedStep ==
    \A id \in Stored :
        /\ sessions'[id] # <<>>
        /\ (SessionOf(id).state = "completed" =>
                sessions'[id][1].state = "completed")
        /\ ((SessionOf(id).state # "completed"
                 /\ sessions'[id][1].state = "completed") => C33_ReturnsEnd(id))
        /\ (C33_ReturnsEnd(id) => sessions'[id][1].state = "completed")

C33_CompletedState ==
    /\ \A id \in Stored : SessionOf(id).state \in {"in-progress", "completed"}
    /\ (lastReturn.kind = "ok" /\ lastReturn.before[1].state = "completed"
            => lastReturn.action = "end-interview")
    /\ \A i \in SubmitSlots :
           subs[i].stage = "generating" => subs[i].before[1].state = "in-progress"

\* C33: a session's state becomes completed exactly in the step in which a
\* submitAnswer for it returns end-interview; a completed session stays
\* completed; and every submitAnswer that starts on a completed session
\* returns end-interview without a model call.
C33_CompletionAbsorbing ==
    /\ [](C33_CompletedState)
    /\ [][C33_CompletedStep]_vars

C33_Witness ==
    /\ lastReturn.kind = "ok"
    /\ lastReturn.before[1].state = "completed"
    /\ lastReturn.action = "end-interview"
    /\ lastReturn.turnAtCall = lastReturn.maxTurns + 2

\* C34: a session's turnCount is at least 1 and at most maxTurns + 1.
C34_TurnCountBounded ==
    \A id \in Stored :
        /\ SessionOf(id).turnCount >= 1
        /\ SessionOf(id).turnCount <= SessionOf(id).maxTurns + 1

\* C35: a submitAnswer that returns end-interview starts no generateResponse
\* and returns the fixed thank-you message; one that returns followup or
\* next-question has run generateResponse exactly once, which sent between
\* one and five requests.
C35_ModelOnlyForQuestions ==
    \A i \in SubmitSlots :
        /\ calls[i].requests <= 5
        /\ calls[i].pc # "idle" =>
               /\ subs[i].stage = "generating"
               /\ subs[i].action \in {"followup", "next-question"}

C35_ReturnStep ==
    (lastReturn' # lastReturn /\ lastReturn'.kind = "ok") =>
        IF lastReturn'.action = "end-interview"
        THEN /\ calls' = calls
             /\ \A i \in SubmitSlots : calls[i] = InitLocals
             /\ lastReturn'.assistantResponse = <<ThankYouText>>
        ELSE /\ lastReturn'.action \in {"followup", "next-question"}
             /\ \E i \in SubmitSlots :
                    /\ calls[i].pc = "returned"
                    /\ calls[i].requests \in 1..5
                    /\ calls'[i] = InitLocals
                    /\ \A j \in SubmitSlots \ {i} : calls'[j] = calls[j] /\ calls[j] = InitLocals

C36_NotStoredWhilePending ==
    startCall # <<>> => sessions[startCall[1].id] = <<>>

C36_StoredStep ==
    \A id \in SessionIds :
        (sessions[id] = <<>> /\ sessions'[id] # <<>>) =>
            /\ startCall # <<>>
            /\ startCall[1].id = id
            /\ startResp' # <<>>
            /\ startResp'[1].status = 200
            /\ startResp'[1].sessionId = id
            /\ startResp'[1].firstQuestion # <<>>
            /\ LET s == sessions'[id][1]
               IN /\ s.turnCount = 1
                  /\ s.detectedPersona = <<>>
                  /\ s.state = "in-progress"
                  /\ s.history = << [speaker |-> "assistant",
                                     content |-> startResp'[1].firstQuestion[1]] >>

C36_FailedStep ==
    (startCall # <<>> /\ startResp' # <<>> /\ startResp'[1].status # 200) =>
        sessions' = sessions

C36_StoredAfterFirstQuestion ==
    /\ [](C36_NotStoredWhilePending)
    /\ [][C36_StoredStep /\ C36_FailedStep]_vars

\* startSession has just returned: the new session is in the store
C36_Witness ==
    /\ startCall = <<>>
    /\ startResp # <<>>
    /\ startResp[1].status = 200
    /\ sessions[startResp[1].sessionId] # <<>>
    /\ sessions[startResp[1].sessionId][1].history =
           << [speaker |-> "assistant", content |-> startResp[1].firstQuestion[1]] >>
    /\ sessions[startResp[1].sessionId][1].turnCount = 1

\* C37: generateFeedback does not modify the session: from its call to its
\* return or throw, and however often it is called, the session store
\* (history, turnCount, detectedPersona, state, maxTurns of every session)
\* stays as it is.
C37_FeedbackStep ==
    (fbCall # <<>> \/ fbCall' # fbCall \/ fbReturn' # fbReturn) =>
        sessions' = sessions

C37_FeedbackKeepsSession == [][C37_FeedbackStep]_vars

\* a report was returned for a session that has answers
C37_Witness ==
    /\ fbCall = <<>>
    /\ fbReturn.kind = "report"
    /\ fbReturn.sid \in SessionIds
    /\ sessions[fbReturn.sid] # <<>>
    /\ Len(sessions[fbReturn.sid][1].history) >= 3
    /\ sessions[fbReturn.sid][1].detectedPersona # <<>>

\* ---------------------------------------------------------------------------
\* ChatInterface (components/ChatInterface.tsx).  The handlers and the
\* elements of the page are those of the last render (chat.shown); a state
\* update made in an event handler is rendered before the next event, one
\* made after an await is rendered by a later task.  turnInfo and
\* detectedPersona are display data copied from the response.
\* ---------------------------------------------------------------------------
\* bound: the requests one ChatInterface sends
MaxChatRequests == 3

\* what the candidate types: nothing, white space, an answer
ChatInputs == {"", " ", "yes", "I led the migration."}

\* ChatInterface.tsx:50, 161  !userInput.trim()
BlankInput(text) == text \in {"", " "}

\* what fetch and res.json() give: a 200 with an action, a response that
\* is not ok, or a rejected fetch
ChatResponses ==
    {[ok |-> TRUE, action |-> a] : a \in {"followup", "next-question", "end-interview"}}
    \cup {[ok |-> FALSE, action |-> "http-error"], [ok |-> FALSE, action |-> "rejected"]}

\* the state the component holds now
ChatState ==
    [userInput |-> chat.userInput, isLoading |-> chat.isLoading,
     interviewComplete |-> chat.interviewComplete]

\* ChatInterface.tsx:147  {!interviewComplete && ( <input/> <button/> )}
InputShown_always(s) == TRUE

InputShown(s) == ~s.interviewComplete

\* ChatInterface.tsx:156  <input disabled={isLoading}>
InputDisabled(s) == s.isLoading

\* ChatInterface.tsx:161  <button disabled={isLoading || !userInput.trim()}>
SendDisabled(s) == s.isLoading \/ BlankInput(s.userInput)

\* ChatInterface.tsx:153  onChange: setUserInput(e.target.value)
ChatType ==
    /\ InputShown(chat.shown)
    /\ ~InputDisabled(chat.shown)
    /\ \E text \in ChatInputs :
           /\ text # chat.userInput
           /\ chat' = [chat EXCEPT !.userInput = text, !.shown.userInput = text]
    /\ UNCHANGED notChat

\* ChatInterface.tsx:49-63  handleSubmitAnswer of the last render, up to its
\* first await
handleSubmitAnswer ==
    /\ chat.sent < MaxChatRequests
    /\ IF BlankInput(chat.shown.userInput) \/ chat.shown.isLoading
       THEN UNCHANGED chat
       ELSE chat' = [chat EXCEPT !.userInput = "",
                                 !.messages = @ + 1,
                                 !.isLoading = TRUE,
                                 !.error = FALSE,
                                 !.posted = chat.shown.userInput,
                                 !.pending = @ + 1,
                                 !.sent = @ + 1,
                                 !.shown = [userInput |-> "", isLoading |-> TRUE,
                                            interviewComplete |-> chat.interviewComplete]]
    /\ UNCHANGED notChat

\* ChatInterface.tsx:160  the Send button is clicked
ChatSend ==
    /\ InputShown(chat.shown)
    /\ ~SendDisabled(chat.shown)
    /\ handleSubmitAnswer

\* ChatInterface.tsx:154  Enter is pressed in the input
ChatEnter ==
    /\ InputShown(chat.shown)
    /\ ~InputDisabled(chat.shown)
    /\ handleSubmitAnswer

\* ChatInterface.tsx:65-89  the fetch settles and handleSubmitAnswer runs to
\* its end
ChatRespond ==
    /\ chat.pending > 0
    /\ \E r \in ChatResponses :
           LET ends == r.ok /\ r.action = "end-interview"
           IN chat' = [chat EXCEPT
                          !.pending = @ - 1,
                          !.messages = IF r.ok THEN @ + 1 ELSE @,
                          !.error = ~r.ok,
                          !.interviewComplete = @ \/ ends,
                          !.ended = IF ends THEN @ + 1 ELSE @,
                          !.scheduled = IF ends THEN @ + 1 ELSE @,
                          !.isLoading = FALSE]
    /\ UNCHANGED notChat

\* the updates made after the await are rendered
ChatRender ==
    /\ chat.shown # ChatState
    /\ chat' = [chat EXCEPT !.shown = ChatState]
    /\ UNCHANGED notChat

\* ChatInterface.tsx:81  the timer of setTimeout(onInterviewComplete, 1000)
\* expires
ChatTimer ==
    /\ chat.completions < chat.scheduled
    /\ chat' = [chat EXCEPT !.completions = @ + 1]
    /\ UNCHANGED notChat

NextChat ==
    \/ ChatType
    \/ ChatSend
    \/ ChatEnter
    \/ ChatRespond
    \/ ChatRender
    \/ ChatTimer

SpecChat == InitSession /\ [][NextChat]_vars

\* C38: a ChatInterface has at most one submit-answer request in flight;
\* while it is loading no Send or Enter sends a request; once a response
\* with action end-interview was received no further request is sent and
\* onInterviewComplete is scheduled exactly once.
C38_OneInFlight ==
    /\ chat.pending <= 1
    /\ chat.pending = 1 => chat.isLoading /\ chat.shown.isLoading
    /\ chat.sent > 0 => ~BlankInput(chat.posted)
    /\ chat.scheduled = (IF chat.ended > 0 THEN 1 ELSE 0)
    /\ chat.ended <= 1
    /\ chat.completions <= 1

C38_NoRequestStep ==
    (chat.isLoading \/ chat.pending > 0 \/ chat.ended > 0) =>
        chat'.sent = chat.sent

C38_OneSubmissionAtATime ==
    [](C38_OneInFlight) /\ [][C38_NoRequestStep]_vars

\* the second answer was answered with end-interview: the input is gone and
\* onInterviewComplete has run once
C38_Witness ==
    /\ chat.sent = 2
    /\ chat.pending = 0
    /\ chat.ended = 1
    /\ chat.shown.interviewComplete
    /\ ~chat.shown.isLoading
    /\ chat.scheduled = 1
    /\ chat.completions = 1

====
